---- MODULE Spec2Model ----
(***************************************************************************)
(* Terminal Markdown Presenter (scripts/present-markdown.mjs).             *)
(*                                                                         *)
(* A JavaScript string is modelled as a sequence of one-character strings, *)
(* so that every regular expression of the source is evaluated character   *)
(* by character.  The characters U+001B, U+2022 and U+0060 are written      *)
(* "ESC", "BULLET" and "BACKTICK".                                         *)
(***************************************************************************)
EXTENDS Integers, Sequences, FiniteSets, TLC

VARIABLES
    pc,          \* position of main(): "start", "running", "exited"
    pages,       \* main: const pages = parseMarkdown(md)
    idx,         \* main: let idx
    exitCode,    \* argument of process.exit, -1 while the process lives
    size,        \* process.stdout.rows / columns
    handlers,    \* listeners installed with .on(...)
    frame,       \* what the last render() wrote: page index, status, output
    event,       \* the event handled last and the renders it caused
    firstRender, \* index given to the first render() call, -1 before it
    stderr,      \* what console.error printed
    rawMode,     \* process.stdin.setRawMode(true) was called
    doc,         \* parse specification: the document text
    parsed,      \* parse specification: result of parseMarkdown
    wline,       \* wrap specification: the line
    wwidth,      \* wrap specification: the width
    wrapped,     \* wrap specification: result of wrapLine
    text,        \* format specification: the raw text
    once,        \* format specification: formatContent(text)
    twice,       \* format specification: formatContent(formatContent(text))
    rpage,       \* render specification: the page
    rsize,       \* render specification: the terminal size
    rout,        \* render specification: result of formatPage
    phase        \* which pure function has been applied

vars == <<pc, pages, idx, exitCode, size, handlers, frame, event, firstRender, stderr,
          rawMode,
          doc, parsed, wline, wwidth, wrapped, text, once, twice,
          rpage, rsize, rout, phase>>

sessionVars == <<pc, pages, idx, exitCode, size, handlers, frame, event, firstRender,
                 stderr, rawMode>>
parseVars == <<doc, parsed>>
wrapVars == <<wline, wwidth, wrapped>>
formatVars == <<text, once, twice>>
renderVars == <<rpage, rsize, rout>>

-----------------------------------------------------------------------------
(* Bounds of the model *)

MaxLines == 5
MaxWrapLen == 6
MaxWidth == 4
MaxTextLen == 6
MaxRows == 6
MaxSessionLines == 3
MaxItems == 3

-----------------------------------------------------------------------------
(* Strings *)

Null == <<"null">>
\* pages[i] beyond the end of the array
Undefined == [type |-> "undefined"]

Min(a, b) == IF a < b THEN a ELSE b
Max(a, b) == IF a > b THEN a ELSE b

\* \s of the regular expressions, restricted to the characters of the model
IsSpace(c) == c \in {" ", "\n", "\t"}

\* \w: every character of the model that is no punctuation, blank or control
IsWord(c) == c \notin {" ", "\n", "\t", "\r", "#", "*", "BACKTICK", "[", "]", "(", ")",
                       "-", ".", ";", ":", "/", "?", "ESC", "BULLET"}

\* \d
IsDigit(c) == c \in {"0", "1", "2", "3", "4", "5", "6", "7", "8", "9"}

RECURSIVE Join(_, _)
Join(strs, sep) ==
    IF strs = <<>> THEN <<>>
    ELSE IF Len(strs) = 1 THEN strs[1]
    ELSE strs[1] \o sep \o Join(Tail(strs), sep)

RECURSIVE SplitFrom(_, _, _, _)
SplitFrom(s, sep, i, cur) ==
    IF i > Len(s) THEN <<cur>>
    ELSE IF s[i] = sep THEN <<cur>> \o SplitFrom(s, sep, i + 1, <<>>)
    ELSE SplitFrom(s, sep, i + 1, Append(cur, s[i]))

\* String.prototype.split with a one-character separator
Split(s, sep) == SplitFrom(s, sep, 1, <<>>)

RECURSIVE TrimStart(_)
TrimStart(s) ==
    IF s # <<>> /\ IsSpace(s[1]) THEN TrimStart(Tail(s)) ELSE s

RECURSIVE TrimEnd(_)
TrimEnd(s) ==
    IF s # <<>> /\ IsSpace(s[Len(s)]) THEN TrimEnd(SubSeq(s, 1, Len(s) - 1)) ELSE s

\* String.prototype.trim
Trim(s) == TrimEnd(TrimStart(s))

\* "x".repeat(n)
RECURSIVE Repeat(_, _)
Repeat(c, n) == IF n <= 0 THEN <<>> ELSE <<c>> \o Repeat(c, n - 1)

\* first index >= i at which s holds a character of set cs, Len(s)+1 if none
RECURSIVE Find(_, _, _)
Find(s, cs, i) ==
    IF i > Len(s) THEN Len(s) + 1
    ELSE IF s[i] \in cs THEN i
    ELSE Find(s, cs, i + 1)

\* first index >= i at which s holds a character that is no whitespace
RECURSIVE SkipSpace(_, _)
SkipSpace(s, i) ==
    IF i <= Len(s) /\ IsSpace(s[i]) THEN SkipSpace(s, i + 1) ELSE i

\* number of characters c in a row from index i
RECURSIVE RunLen(_, _, _)
RunLen(s, c, i) ==
    IF i <= Len(s) /\ s[i] = c THEN 1 + RunLen(s, c, i + 1) ELSE 0

\* number of occurrences of c
RECURSIVE Count(_, _)
Count(s, c) ==
    IF s = <<>> THEN 0 ELSE (IF s[1] = c THEN 1 ELSE 0) + Count(Tail(s), c)

-----------------------------------------------------------------------------
(* parseMarkdown *)

\* line.match(/^#{n}\s+(.+)$/): n marks, whitespace, at least one more character
MatchHeading(line, n) ==
    /\ Len(line) >= n + 2
    /\ \A k \in 1..n : line[k] = "#"
    /\ IsSpace(line[n + 1])

\* h[1].trim() of the match above
HeadingText(line, n) == Trim(SubSeq(line, n + 2, Len(line)))

\* lines[i].match(/^#{1,3}\s/)
MatchStop(line) ==
    \E k \in 1..3 :
        /\ Len(line) >= k + 1
        /\ \A j \in 1..k : line[j] = "#"
        /\ IsSpace(line[k + 1])

\* l.match(/^##\s+/)
MatchH2Next(line) ==
    Len(line) >= 3 /\ line[1] = "#" /\ line[2] = "#" /\ IsSpace(line[3])

\* index of the first line >= i that is a top-level heading, Len+1 if none
RECURSIVE FirstH1(_, _)
FirstH1(lines, i) ==
    IF i > Len(lines) THEN Len(lines) + 1
    ELSE IF MatchHeading(lines[i], 1) THEN i
    ELSE FirstH1(lines, i + 1)

\* index of the first line >= i that stops the title's content
RECURSIVE FirstStop(_, _)
FirstStop(lines, i) ==
    IF i > Len(lines) THEN Len(lines) + 1
    ELSE IF MatchStop(lines[i]) THEN i
    ELSE FirstStop(lines, i + 1)

\* the first loop: the pages pushed and the value of i after it
ExtractTitle(lines) ==
    LET k == FirstH1(lines, 1) IN
    IF k > Len(lines) THEN [pages |-> <<>>, i |-> Len(lines) + 1]
    ELSE LET j == FirstStop(lines, k + 1) IN
         [pages |-> <<[type |-> "title",
                       title |-> HeadingText(lines[k], 1),
                       content |-> Trim(Join(SubSeq(lines, k + 1, j - 1), <<"\n">>))]>>,
          i |-> j]

\* the sub-page pushed for currentContent, if any
FlushSubPage(currentContent) ==
    IF Len(currentContent) > 0 /\ Trim(Join(currentContent, <<"\n">>)) # <<>>
    THEN <<[subtitle |-> IF MatchHeading(currentContent[1], 3)
                         THEN HeadingText(currentContent[1], 3)
                         ELSE Null,
            content |-> Trim(Join(currentContent, <<"\n">>))]>>
    ELSE <<>>

\* the inner loop over one section, from line i
RECURSIVE ScanSection(_, _, _, _)
ScanSection(lines, i, currentContent, subPages) ==
    IF i > Len(lines)
    THEN [i |-> i, subPages |-> subPages \o FlushSubPage(currentContent)]
    ELSE IF MatchH2Next(lines[i])
    THEN [i |-> i, subPages |-> subPages \o FlushSubPage(currentContent)]
    ELSE IF MatchHeading(lines[i], 3)
    THEN ScanSection(lines, i + 1, <<lines[i]>>,
                     subPages \o FlushSubPage(currentContent))
    ELSE ScanSection(lines, i + 1, Append(currentContent, lines[i]), subPages)

\* sp.content.replace(/^###\s+[^\n]+\n?/, ""): the marks, the whitespace after
\* them (a trimmed string always has a non-blank character there), the rest of
\* that line and its line break
StripH3Line(content) ==
    IF Len(content) >= 4 /\ \A k \in 1..3 : content[k] = "#"
    THEN LET a == SkipSpace(content, 4)
             e == Find(content, {"\n"}, a)
         IN IF IsSpace(content[4]) /\ a <= Len(content)
            THEN SubSeq(content, Min(e + 1, Len(content) + 1), Len(content))
            ELSE content
    ELSE content

\* the sub-page's record given the type of the title page
PageTypeTitle == "title"

\* type: "page"
PageType == "page"

\* the page pushed for one sub-page
ContentPage(pageTitle, sp) ==
    [type |-> PageType,
     title |-> pageTitle,
     subtitle |-> sp.subtitle,
     content |-> IF sp.subtitle # Null /\ sp.subtitle # <<>>
                 THEN Trim(StripH3Line(sp.content))
                 ELSE sp.content]

RECURSIVE ContentPages(_, _)
ContentPages(pageTitle, subPages) ==
    IF subPages = <<>> THEN <<>>
    ELSE <<ContentPage(pageTitle, subPages[1])>> \o ContentPages(pageTitle, Tail(subPages))

\* the pages pushed for one section
SectionPages(pageTitle, subPages) ==
    IF Len(subPages) = 0
    THEN <<[type |-> PageType, title |-> pageTitle, subtitle |-> Null, content |-> <<>>]>>
    ELSE ContentPages(pageTitle, subPages)

\* the second loop, from line i
RECURSIVE ExtractPages(_, _)
ExtractPages(lines, i) ==
    IF i > Len(lines) THEN <<>>
    ELSE IF MatchHeading(lines[i], 2)
    THEN LET s == ScanSection(lines, i + 1, <<>>, <<>>) IN
         SectionPages(HeadingText(lines[i], 2), s.subPages) \o ExtractPages(lines, s.i)
    ELSE ExtractPages(lines, i + 1)

parseMarkdown(md) ==
    LET lines == Split(md, "\n")
        t == ExtractTitle(lines)
    IN t.pages \o ExtractPages(lines, t.i)

-----------------------------------------------------------------------------
(* wrapLine *)

\* for (let i = 0; i < w.length; i += width) result.push(w.slice(i, i + width))
RECURSIVE Chunks(_, _)
Chunks(w, width) ==
    IF w = <<>> THEN <<>>
    ELSE <<SubSeq(w, 1, Min(width, Len(w)))>> \o Chunks(SubSeq(w, width + 1, Len(w)), width)

\* the test without the separating space
FitsNoSpace(current, w, width) == Len(current) + Len(w) <= width

\* current.length + w.length + 1 <= width
Fits(current, w, width) == Len(current) + Len(w) + 1 <= width

\* if (current) result.push(current)
Flush(result, current) == IF current # <<>> THEN Append(result, current) ELSE result

\* one round of the loop over the words
WrapWord(st, w, width) ==
    IF Len(w) > width
    THEN [result |-> Flush(st.result, st.current) \o Chunks(w, width), current |-> <<>>]
    ELSE IF Fits(st.current, w, width)
    THEN [result |-> st.result,
          current |-> st.current \o (IF st.current # <<>> THEN <<" ">> ELSE <<>>) \o w]
    ELSE [result |-> Flush(st.result, st.current), current |-> w]

RECURSIVE WrapWords(_, _, _)
WrapWords(st, words, width) ==
    IF words = <<>> THEN st
    ELSE WrapWords(WrapWord(st, words[1], width), Tail(words), width)

wrapLine(line, width) ==
    LET st == WrapWords([result |-> <<>>, current |-> <<>>], Split(line, " "), width)
    IN Flush(st.result, st.current)

-----------------------------------------------------------------------------
(* formatContent *)

green == <<"ESC", "[", "3", "2", "m">>
red == <<"ESC", "[", "3", "1", "m">>
cyan == <<"ESC", "[", "3", "6", "m">>
orange == <<"ESC", "[", "3", "8", ";", "5", ";", "2", "0", "8", "m">>
reset == <<"ESC", "[", "0", "m">>

\* s holds n characters d in a row at index i
HasRun(s, d, n, i) == i + n - 1 <= Len(s) /\ \A k \in i..(i + n - 1) : s[k] = d

\* one line of a fenced block: `${orange}  ${l.replace(/\s+$/, "")}${reset}`
CodeLine(l) == orange \o <<" ", " ">> \o TrimEnd(l) \o reset

RECURSIVE CodeLines(_)
CodeLines(ls) == IF ls = <<>> THEN <<>> ELSE <<CodeLine(ls[1])>> \o CodeLines(Tail(ls))

\* the replacement of one fenced block, given block.slice(3, -3)
CodeBlock(inner) ==
    LET lines == Split(inner, "\n")
        lang == lines[1] # <<>> /\ \A k \in 1..Len(lines[1]) : IsWord(lines[1][k])
    IN Join(CodeLines(IF lang THEN Tail(lines) ELSE lines), <<"\n">>)

\* first index j >= i at which a closing fence starts, Len(s)+1 if none
RECURSIVE FindFence(_, _)
FindFence(s, i) ==
    IF i > Len(s) THEN Len(s) + 1
    ELSE IF HasRun(s, "BACKTICK", 3, i) THEN i
    ELSE FindFence(s, i + 1)

\* text.replace(/```[\s\S]*?```/g, ...)
RECURSIVE ReplaceCodeBlocks(_, _)
ReplaceCodeBlocks(s, i) ==
    IF i > Len(s) THEN <<>>
    ELSE IF HasRun(s, "BACKTICK", 3, i) /\ FindFence(s, i + 3) <= Len(s)
    THEN LET j == FindFence(s, i + 3) IN
         CodeBlock(SubSeq(s, i + 3, j - 1)) \o ReplaceCodeBlocks(s, j + 3)
    ELSE <<s[i]>> \o ReplaceCodeBlocks(s, i + 1)

\* ^ under the m flag
LineStart(s, i) == i = 1 \/ s[i - 1] = "\n"

\* length of what the rule matches before its \s+ at index i, 0 if nothing:
\* #{1,6}, [-*] or \d+\.
MarkerLen(s, i, rule) ==
    IF rule = "heading"
    THEN LET h == RunLen(s, "#", i) IN IF h <= 6 THEN h ELSE 0
    ELSE IF rule = "bullet"
    THEN IF s[i] \in {"-", "*"} THEN 1 ELSE 0
    ELSE LET e == Find(s, {c \in {s[k] : k \in i..Len(s)} : ~IsDigit(c)}, i) IN
         IF e > i /\ e <= Len(s) /\ s[e] = "." THEN e - i + 1 ELSE 0

\* .replace(/^<marker>\s+/gm, replacement)
RECURSIVE ReplaceMarkers(_, _, _, _)
ReplaceMarkers(s, i, rule, replacement) ==
    IF i > Len(s) THEN <<>>
    ELSE LET n == IF LineStart(s, i) THEN MarkerLen(s, i, rule) ELSE 0 IN
         IF n > 0 /\ i + n <= Len(s) /\ IsSpace(s[i + n])
         THEN replacement \o ReplaceMarkers(s, SkipSpace(s, i + n), rule, replacement)
         ELSE <<s[i]>> \o ReplaceMarkers(s, i + 1, rule, replacement)

\* .replace(/D([^d]+)D/g, `${color}$1${reset}`) where D is n characters d
RECURSIVE ReplaceSpans(_, _, _, _, _)
ReplaceSpans(s, i, d, n, color) ==
    IF i > Len(s) THEN <<>>
    ELSE LET j == Find(s, {d}, i + n) IN
         IF HasRun(s, d, n, i) /\ j > i + n /\ HasRun(s, d, n, j)
         THEN color \o SubSeq(s, i + n, j - 1) \o reset \o ReplaceSpans(s, j + n, d, n, color)
         ELSE <<s[i]>> \o ReplaceSpans(s, i + 1, d, n, color)

\* .replace(/\[([^\]]+)\]\([^)]+\)/g, "$1")
RECURSIVE ReplaceLinks(_, _)
ReplaceLinks(s, i) ==
    IF i > Len(s) THEN <<>>
    ELSE LET j == Find(s, {"]"}, i + 1)
             k == Find(s, {")"}, j + 2)
         IN IF /\ s[i] = "[" /\ j > i + 1 /\ j + 1 <= Len(s) /\ s[j + 1] = "("
               /\ k > j + 2 /\ k <= Len(s)
            THEN SubSeq(s, i + 1, j - 1) \o ReplaceLinks(s, k + 1)
            ELSE <<s[i]>> \o ReplaceLinks(s, i + 1)

\* the italic replacements made before the bold ones
EmphasisItalicFirst(s) ==
    LET i1 == ReplaceSpans(s, 1, "*", 1, cyan)
        i2 == ReplaceSpans(i1, 1, "_", 1, cyan)
        b1 == ReplaceSpans(i2, 1, "*", 2, red)
    IN ReplaceSpans(b1, 1, "_", 2, red)

\* the bold and italic replacements, in the order of the source
Emphasis(s) ==
    LET b1 == ReplaceSpans(s, 1, "*", 2, red)
        b2 == ReplaceSpans(b1, 1, "_", 2, red)
        i1 == ReplaceSpans(b2, 1, "*", 1, cyan)
    IN ReplaceSpans(i1, 1, "_", 1, cyan)

formatContent(t) ==
    LET blocks == ReplaceCodeBlocks(t, 1)
        heads == ReplaceMarkers(blocks, 1, "heading", <<>>)
        emph == Emphasis(heads)
        code == ReplaceSpans(emph, 1, "BACKTICK", 1, orange)
        links == ReplaceLinks(code, 1)
        bullets == ReplaceMarkers(links, 1, "bullet", <<" ", " ", "BULLET", " ">>)
    IN ReplaceMarkers(bullets, 1, "ordered", <<" ", " ">>)

-----------------------------------------------------------------------------
(* formatPage *)

MIN_COLUMNS_FOR_PADDING == 100
LEFT_PADDING_SPACES == 4

\* columns >= MIN_COLUMNS_FOR_PADDING ? LEFT_PADDING_SPACES : 0
LeftPadding(columns) ==
    IF columns >= MIN_COLUMNS_FOR_PADDING THEN LEFT_PADDING_SPACES ELSE 0

ContentWidth(columns) == columns - LeftPadding(columns)

\* JavaScript truthiness of a string or null
Truthy(s) == s # Null /\ s # <<>>

RECURSIVE FilterBoolean(_)
FilterBoolean(ls) ==
    IF ls = <<>> THEN <<>>
    ELSE (IF ls[1] # <<>> THEN <<ls[1]>> ELSE <<>>) \o FilterBoolean(Tail(ls))

RECURSIVE FlatMapWrap(_, _)
FlatMapWrap(ls, width) ==
    IF ls = <<>> THEN <<>>
    ELSE wrapLine(ls[1], width) \o FlatMapWrap(Tail(ls), width)

\* the loop of wrapLine over a token never ends when width < 1
WrapDiverges(ls, width) ==
    width < 1 /\ \E k \in 1..Len(ls) : \E c \in 1..Len(ls[k]) : ls[k][c] # " "

\* page.content ? formatContent(page.content).split("\n").filter(Boolean) : []
FormattedLines(page) ==
    IF page.content # <<>>
    THEN FilterBoolean(Split(formatContent(page.content), "\n"))
    ELSE <<>>

HeaderLines(page) ==
    IF page.type = "title"
    THEN <<green \o page.title \o reset>>
    ELSE <<green \o page.title \o reset>>
         \o (IF Truthy(page.subtitle)
             THEN <<<<>>, <<" ", " ">> \o green \o page.subtitle \o reset>>
             ELSE <<>>)

\* the second argument given to padContentBelow
AvailableForContent(page, rows) ==
    IF page.type = "title"
    THEN (rows - 1) - 1
    ELSE Max(0, (rows - 1) - Len(HeaderLines(page)))

\* Math.max(0, Math.floor((availableRows - contentHeight) / 2))
TopPadding(contentHeight, availableRows) ==
    Max(0, (availableRows - contentHeight) \div 2)

\* the count without Math.max
BottomPaddingUnclamped(contentHeight, availableRows, padding) ==
    availableRows - padding - contentHeight

\* Math.max(0, availableRows - padding - contentHeight)
BottomPadding(contentHeight, availableRows, padding) ==
    Max(0, availableRows - padding - contentHeight)

padContentBelow(contentLines, availableRows) ==
    LET padding == TopPadding(Len(contentLines), availableRows) IN
    Repeat("\n", padding) \o Join(contentLines, <<"\n">>)
        \o Repeat("\n", BottomPadding(Len(contentLines), availableRows, padding))

RECURSIVE PadLines(_, _)
PadLines(ls, pad) ==
    IF ls = <<>> THEN <<>> ELSE <<pad \o ls[1]>> \o PadLines(Tail(ls), pad)

addLeftPadding(t, columns) ==
    IF columns < MIN_COLUMNS_FOR_PADDING THEN t
    ELSE Join(PadLines(Split(t, "\n"), Repeat(" ", LEFT_PADDING_SPACES)), <<"\n">>)

\* the assembled result of formatPage, with the quantities computed on the way.
\* String.repeat throws a RangeError on a negative count.
PageOutput(page, sz, contentWidth, diverges, contentLines, available, top, bottom) ==
    [completed |-> ~diverges /\ top >= 0 /\ bottom >= 0,
     width |-> contentWidth,
     headerHeight |-> Len(HeaderLines(page)),
     contentHeight |-> Len(contentLines),
     available |-> available,
     top |-> top,
     bottom |-> bottom,
     output |-> IF diverges \/ top < 0 \/ bottom < 0 THEN <<>>
                ELSE addLeftPadding(Join(HeaderLines(page), <<"\n">>) \o <<"\n">>
                                        \o padContentBelow(contentLines, available),
                                    sz.columns)]

\* the padding counts of padContentBelow
PagePadded(page, sz, contentWidth, diverges, contentLines, available, top) ==
    PageOutput(page, sz, contentWidth, diverges, contentLines, available, top,
               BottomPadding(Len(contentLines), available, top))

PageCentered(page, sz, contentWidth, diverges, contentLines, available) ==
    PagePadded(page, sz, contentWidth, diverges, contentLines, available,
               TopPadding(Len(contentLines), available))

\* .flatMap((cl) => wrapLine(cl, contentWidth))
PageWrapped(page, sz, contentWidth, formatted) ==
    PageCentered(page, sz, contentWidth, WrapDiverges(formatted, contentWidth),
                 IF WrapDiverges(formatted, contentWidth) THEN <<>>
                 ELSE FlatMapWrap(formatted, contentWidth),
                 AvailableForContent(page, sz.rows))

formatPage(page, sz) ==
    PageWrapped(page, sz, ContentWidth(sz.columns), FormattedLines(page))

-----------------------------------------------------------------------------
(* render and main *)

clearScreen == <<"ESC", "[", "2", "J", "ESC", "[", "H">>
hideCursor == <<"ESC", "[", "?", "2", "5", "l">>
showCursor == <<"ESC", "[", "?", "2", "5", "h">>

\* the template literal's conversion of a non-negative integer
RECURSIVE DecimalString(_)
DecimalString(n) ==
    LET d == <<"0", "1", "2", "3", "4", "5", "6", "7", "8", "9">>[(n % 10) + 1] IN
    IF n < 10 THEN <<d>> ELSE DecimalString(n \div 10) \o <<d>>

\* `\n${ESC}[2m[${index + 1}/${total}] q:quit${ESC}[0m`
StatusLine(index, total) ==
    <<"\n", "ESC", "[", "2", "m", "[">> \o DecimalString(index + 1) \o <<"/">>
        \o DecimalString(total) \o <<"]", " ", "q", ":", "q", "u", "i", "t">> \o reset

\* pages[i] of JavaScript, i counted from 0
PageAt(ps, i) == IF i >= 0 /\ i < Len(ps) THEN ps[i + 1] ELSE Undefined

NoFrame == [index |-> -1, total |-> 0, output |-> <<>>, status |-> <<>>]

\* the two writes of render, given what formatPage returned
Written(index, total, formatted) ==
    IF ~formatted.completed
    THEN [threw |-> TRUE, frame |-> NoFrame]
    ELSE [threw |-> FALSE,
          frame |-> [index |-> index, total |-> total,
                     output |-> clearScreen \o hideCursor \o formatted.output,
                     status |-> StatusLine(index, total)]]

\* what render(page, index, total) writes; it throws on an undefined page
render(page, index, total, sz) ==
    IF page.type = "undefined"
    THEN [threw |-> TRUE, frame |-> NoFrame]
    ELSE Written(index, total, formatPage(page, sz))

\* k === "q" || k === "\u0003"
QuitKeys == {"q", "ETX"}

\* the next keys with "k" among them
NextKeysWithK == {"n", " ", "ESC[C", "j", "\r", "k"}

\* k === "n" || k === " " || k === "\u001b[C" || k === "j" || k === "\r"
NextKeys == {"n", " ", "ESC[C", "j", "\r"}

\* k === "p" || k === "b" || k === "\u001b[D" || k === "k"
PrevKeys == {"p", "b", "ESC[D", "k"}

\* idx + 1 without Math.min
NextIndexUnclamped(i, n) == i + 1

\* Math.min(idx + 1, pages.length - 1)
NextIndex(i, n) == Min(i + 1, n - 1)

\* Math.max(idx - 1, 0)
PrevIndex(i, n) == Max(i - 1, 0)

\* the test of pages.length left out
NoPagesUnchecked(ps) == FALSE

\* pages.length === 0
NoPages(ps) == Len(ps) = 0

\* the handler's running state st = [idx, renders, frame, threw] after
\* idx = target; render(...) wrote r
Rendered(st, target, r) ==
    [idx |-> target,
     renders |-> IF r.threw THEN st.renders ELSE st.renders + 1,
     frame |-> IF r.threw THEN st.frame ELSE r.frame,
     threw |-> r.threw]

\* if (k is a next key) { idx = Math.min(idx + 1, pages.length - 1); render(...) }
AfterNext(st, k, ps, sz) ==
    IF st.threw \/ k \notin NextKeys THEN st
    ELSE Rendered(st, NextIndex(st.idx, Len(ps)),
                  render(PageAt(ps, NextIndex(st.idx, Len(ps))),
                         NextIndex(st.idx, Len(ps)), Len(ps), sz))

\* if (k is a previous key) { idx = Math.max(idx - 1, 0); render(...) }
AfterPrev(st, k, ps, sz) ==
    IF st.threw \/ k \notin PrevKeys THEN st
    ELSE Rendered(st, PrevIndex(st.idx, Len(ps)),
                  render(PageAt(ps, PrevIndex(st.idx, Len(ps))),
                         PrevIndex(st.idx, Len(ps)), Len(ps), sz))

-----------------------------------------------------------------------------
(* Inputs *)

\* the lines documents are made of: "# T", "## A", "## B", "### x", "b", "", "#### d"
Lines ==
    { <<"#", " ", "T">>, <<"#", "#", " ", "A">>, <<"#", "#", " ", "B">>,
      <<"#", "#", "#", " ", "x">>, <<"b">>, <<>>, <<"#", "#", "#", "#", " ", "d">> }

\* what readFile resolves to: lines.join("\n")
Documents(n) == { Join(ls, <<"\n">>) : ls \in UNION { [1..k -> Lines] : k \in 0..n } }

Strings(alphabet, n) == UNION { [1..k -> alphabet] : k \in 0..n }

\* markup-free text and well-formed spans, the pieces longer texts are made of
FormatItems ==
    { <<"a">>, <<" ">>, <<"*", "*", "a", "*", "*">>, <<"_", "_", "a", "_", "_">>,
      <<"*", "a", "*">>, <<"_", "a", "_">>, <<"BACKTICK", "a", "BACKTICK">> }

Compositions(n) == { Join(items, <<>>) : items \in UNION { [1..k -> FormatItems] : k \in 0..n } }

Keys == QuitKeys \cup NextKeys \cup PrevKeys \cup {"x", "N", "ESC[A", "nn"}

Sizes == { [rows |-> 24, columns |-> 80], [rows |-> MaxRows, columns |-> 100] }

RenderContents ==
    { <<>>, <<"a">>, <<"a", " ", "b">>, <<"a", "\n", "b">>, <<"a", "\n", "\n", "b", " ", "c">>,
      <<"*", "*", "a", "*", "*", " ", "b">>, <<"-", " ", "a", "\n", "-", " ", "b">>,
      <<"a", "a", "a", "b", "b", "b">>, <<" ">> }

RenderPages ==
    { [type |-> "title", title |-> <<"T">>, content |-> c] : c \in RenderContents }
    \cup { [type |-> "page", title |-> <<"A">>, subtitle |-> st, content |-> c] :
             st \in {Null, <<"x">>}, c \in RenderContents }

RenderSizes ==
    { [rows |-> r, columns |-> c] :
        r \in (1..MaxRows) \cup {24},
        c \in (1..MaxWidth) \cup {80, MIN_COLUMNS_FOR_PADDING - 1, MIN_COLUMNS_FOR_PADDING} }

-----------------------------------------------------------------------------
(* The session: main() and the handlers it installs *)

NoEvent == [kind |-> "none", key |-> "", renders |-> 0, before |-> 0]

SessionIdle ==
    /\ pc = "idle" /\ pages = <<>> /\ idx = 0 /\ exitCode = -1
    /\ size = [rows |-> 24, columns |-> 80] /\ handlers = {}
    /\ frame = NoFrame /\ event = NoEvent /\ firstRender = -1 /\ stderr = ""
    /\ rawMode = FALSE

ParseIdle == doc = <<>> /\ parsed = <<>>
WrapIdle == wline = <<>> /\ wwidth = 1 /\ wrapped = <<>>
FormatIdle == text = <<>> /\ once = <<>> /\ twice = <<>>
RenderIdle == rpage = Null /\ rsize = [rows |-> 24, columns |-> 80] /\ rout = Null

Init ==
    /\ pc = "start" /\ pages = <<>> /\ idx = 0 /\ exitCode = -1
    /\ size \in Sizes /\ handlers = {}
    /\ frame = NoFrame /\ event = NoEvent /\ firstRender = -1 /\ stderr = ""
    /\ rawMode = FALSE
    /\ ParseIdle /\ WrapIdle /\ FormatIdle /\ RenderIdle /\ phase = "session"

pureVars == <<doc, parsed, wline, wwidth, wrapped, text, once, twice,
              rpage, rsize, rout, phase>>

\* if (!path) { console.error(...); process.exit(1) }
UsageError ==
    /\ pc = "start"
    /\ pc' = "exited" /\ exitCode' = 1
    /\ stderr' = "Usage: node present-markdown.mjs <file.md>"
    /\ UNCHANGED <<pages, idx, size, handlers, frame, event, firstRender, rawMode>>
    /\ UNCHANGED pureVars

\* readFile rejects: .catch((err) => { console.error(err.message); process.exit(1) })
ReadFailed ==
    /\ pc = "start"
    /\ pc' = "exited" /\ exitCode' = 1
    /\ stderr' = "err.message"
    /\ UNCHANGED <<pages, idx, size, handlers, frame, event, firstRender, rawMode>>
    /\ UNCHANGED pureVars

\* the .then callback after the test of pages.length, r what render wrote
Started(r) ==
    /\ rawMode' = TRUE
    /\ IF r.threw
       THEN \* the exception reaches .catch, after the resize listener was installed
            /\ pc' = "exited" /\ exitCode' = 1
            /\ stderr' = "err.message"
            /\ handlers' = {"resize"}
            /\ UNCHANGED <<frame, event, firstRender>>
       ELSE /\ pc' = "running" /\ exitCode' = exitCode
            /\ stderr' = stderr
            /\ handlers' = {"resize", "data"}
            /\ frame' = r.frame
            /\ firstRender' = 0
            /\ event' = [kind |-> "start", key |-> "", renders |-> 1, before |-> 0]

\* the .then callback, ps what parseMarkdown returned
Parsed(ps) ==
    /\ pages' = ps
    /\ idx' = 0
    /\ IF NoPages(ps)
       THEN /\ pc' = "exited" /\ exitCode' = 1
            /\ stderr' = "No valid structure found (need H1 or H2 headings)"
            /\ UNCHANGED <<handlers, frame, event, firstRender, rawMode>>
       ELSE Started(render(PageAt(ps, 0), 0, Len(ps), size))

\* readFile resolves to md
Loaded(md) ==
    /\ pc = "start"
    /\ Parsed(parseMarkdown(md))
    /\ UNCHANGED size
    /\ UNCHANGED pureVars

\* the key handler's effect, st its running state at the end
Handled(k, st) ==
    /\ idx' = st.idx
    /\ frame' = st.frame
    /\ event' = [kind |-> "key", key |-> k, renders |-> st.renders, before |-> idx]
    \* an exception in a listener is uncaught and ends the process
    /\ pc' = IF st.threw THEN "exited" ELSE pc
    /\ exitCode' = IF st.threw THEN 1 ELSE exitCode

\* process.stdin.on("data", (key) => ...)
KeyData(k) ==
    /\ pc = "running" /\ "data" \in handlers
    /\ IF k \in QuitKeys
       THEN /\ frame' = [index |-> -1, total |-> 0,
                         output |-> clearScreen \o showCursor, status |-> <<>>]
            /\ pc' = "exited" /\ exitCode' = 0
            /\ idx' = idx
            /\ event' = [kind |-> "key", key |-> k, renders |-> 0, before |-> idx]
       ELSE Handled(k, AfterPrev(AfterNext([idx |-> idx, renders |-> 0, frame |-> frame,
                                            threw |-> FALSE], k, pages, size),
                                 k, pages, size))
    /\ UNCHANGED <<pages, size, handlers, firstRender, stderr, rawMode>>
    /\ UNCHANGED pureVars

\* the resize listener's effect, r what render wrote
Resized(r) ==
    /\ frame' = IF r.threw THEN frame ELSE r.frame
    /\ event' = [kind |-> "resize", key |-> "",
                 renders |-> IF r.threw THEN 0 ELSE 1, before |-> idx]
    /\ pc' = IF r.threw THEN "exited" ELSE pc
    /\ exitCode' = IF r.threw THEN 1 ELSE exitCode

\* process.stdout.on("resize", () => render(pages[idx], idx, pages.length)),
\* with the dimensions the terminal has from now on
Resize(sz) ==
    /\ pc = "running" /\ "resize" \in handlers
    /\ size' = sz
    /\ Resized(render(PageAt(pages, idx), idx, Len(pages), sz))
    /\ UNCHANGED <<pages, idx, handlers, firstRender, stderr, rawMode>>
    /\ UNCHANGED pureVars

Next ==
    \/ UsageError
    \/ ReadFailed
    \/ \E md \in Documents(MaxSessionLines) : Loaded(md)
    \/ \E k \in Keys : KeyData(k)
    \/ \E sz \in Sizes : Resize(sz)

Spec == Init /\ [][Next]_vars

-----------------------------------------------------------------------------
(* parseMarkdown applied to every document of the bound *)

InitParse ==
    /\ SessionIdle /\ WrapIdle /\ FormatIdle /\ RenderIdle
    /\ doc \in Documents(MaxLines) /\ parsed = <<>> /\ phase = "document"

ParseStep ==
    /\ phase = "document"
    /\ parsed' = parseMarkdown(doc)
    /\ phase' = "parsed"
    /\ UNCHANGED <<doc, wline, wwidth, wrapped, text, once, twice, rpage, rsize, rout>>
    /\ UNCHANGED sessionVars

NextParse == ParseStep

SpecParse == InitParse /\ [][NextParse]_vars

-----------------------------------------------------------------------------
(* wrapLine applied to every line and width of the bound *)

InitWrap ==
    /\ SessionIdle /\ ParseIdle /\ FormatIdle /\ RenderIdle
    /\ wline \in Strings({"a", "b", " "}, MaxWrapLen)
    /\ wwidth \in 1..MaxWidth
    /\ wrapped = <<>> /\ phase = "line"

WrapStep ==
    /\ phase = "line"
    /\ wrapped' = wrapLine(wline, wwidth)
    /\ phase' = "wrapped"
    /\ UNCHANGED <<doc, parsed, wline, wwidth, text, once, twice, rpage, rsize, rout>>
    /\ UNCHANGED sessionVars

NextWrap == WrapStep

SpecWrap == InitWrap /\ [][NextWrap]_vars

-----------------------------------------------------------------------------
(* formatContent applied once and twice to every text of the bound *)

InitFormat ==
    /\ SessionIdle /\ ParseIdle /\ WrapIdle /\ RenderIdle
    /\ text \in Strings({"*", "_", "BACKTICK", "a"}, MaxTextLen) \cup Compositions(MaxItems)
    /\ once = <<>> /\ twice = <<>> /\ phase = "text"

FormatStep ==
    /\ phase = "text"
    /\ once' = formatContent(text)
    /\ twice' = formatContent(formatContent(text))
    /\ phase' = "formatted"
    /\ UNCHANGED <<doc, parsed, wline, wwidth, wrapped, text, rpage, rsize, rout>>
    /\ UNCHANGED sessionVars

NextFormat == FormatStep

SpecFormat == InitFormat /\ [][NextFormat]_vars

-----------------------------------------------------------------------------
(* formatPage applied to every page and terminal size of the bound *)

InitRender ==
    /\ SessionIdle /\ ParseIdle /\ WrapIdle /\ FormatIdle
    /\ rpage \in RenderPages /\ rsize \in RenderSizes
    /\ rout = Null /\ phase = "page"

RenderStep ==
    /\ phase = "page"
    /\ rout' = formatPage(rpage, rsize)
    /\ phase' = "rendered"
    /\ UNCHANGED <<doc, parsed, wline, wwidth, wrapped, text, once, twice, rpage, rsize>>
    /\ UNCHANGED sessionVars

NextRender == RenderStep

SpecRender == InitRender /\ [][NextRender]_vars

-----------------------------------------------------------------------------
(* Properties of the session *)

\* a frame written by render, as opposed to nothing or the screen cleared on quit
IsRenderFrame(f) == f.index >= 0

\* C1: with at least one page the current index stays within 0..pageCount-1
\* after every event; a previous key at index 0 leaves it at 0, a next key at
\* the last index leaves it there, and every render is given an existing page.
C1_IndexInRange ==
    Len(pages) >= 1 =>
        /\ idx \in 0..(Len(pages) - 1)
        /\ (event.kind = "key" /\ event.key \in PrevKeys /\ event.before = 0) => idx = 0
        /\ (event.kind = "key" /\ event.key \in NextKeys
              /\ event.before = Len(pages) - 1) => idx = Len(pages) - 1
        /\ IsRenderFrame(frame) => frame.index \in 0..(Len(pages) - 1)

\* a next key pressed on the last of several pages
C1_Witness ==
    /\ Len(pages) >= 2 /\ pc = "running"
    /\ event.kind = "key" /\ event.key \in NextKeys
    /\ event.before = Len(pages) - 1 /\ idx = Len(pages) - 1

\* C6: while the event loop runs every event causes at most one render; a next
\* key, a previous key and a resize each cause exactly one, of the page at the
\* index as it stands after the event, with the status line index+1 of
\* pageCount; a resize leaves the index alone; a key of none of the three sets
\* changes nothing and renders nothing; the three sets are disjoint.
C6_OneRenderPerEvent ==
    [][ pc = "running" =>
          /\ event'.renders <= 1
          /\ (event'.kind = "key" /\ event'.key \in NextKeys) =>
                /\ event'.renders = 1
                /\ idx' = Min(idx + 1, Len(pages) - 1)
          /\ (event'.kind = "key" /\ event'.key \in PrevKeys) =>
                /\ event'.renders = 1
                /\ idx' = Max(idx - 1, 0)
          /\ event'.kind = "resize" => (event'.renders = 1 /\ idx' = idx)
          /\ event'.renders = 1 =>
                /\ frame'.index = idx' /\ frame'.total = Len(pages)
                /\ frame'.status = StatusLine(idx', Len(pages))
                /\ frame'.output = clearScreen \o hideCursor
                                     \o formatPage(pages[idx' + 1], size').output
          /\ (event'.kind = "key"
                /\ event'.key \notin (NextKeys \cup PrevKeys \cup QuitKeys)) =>
                /\ event'.renders = 0
                /\ UNCHANGED <<pc, pages, idx, exitCode, size, handlers, frame,
                               firstRender, stderr, rawMode>>
          /\ NextKeys \cap PrevKeys = {}
          /\ NextKeys \cap QuitKeys = {}
          /\ PrevKeys \cap QuitKeys = {}
      ]_vars

\* a next key that moved from the first page to the second and rendered it
C6_Witness ==
    /\ pc = "running" /\ event.kind = "key" /\ event.key = "n"
    /\ event.before = 0 /\ idx = 1 /\ event.renders = 1 /\ frame.index = 1

\* C8: an empty page list ends the session with a non-zero exit code before
\* anything is rendered and before any listener is installed; whenever
\* something was rendered or an event handled, the page list is non-empty and
\* the first render was of index 0.
C8_StartupFailure ==
    /\ (pc # "start" /\ Len(pages) = 0) =>
          /\ pc = "exited" /\ exitCode >= 1
          /\ frame = NoFrame /\ firstRender = -1
          /\ handlers = {} /\ event = NoEvent /\ ~rawMode
    /\ (frame # NoFrame \/ event # NoEvent \/ firstRender # -1 \/ handlers # {}) =>
          (Len(pages) >= 1 /\ firstRender = 0)

\* a document without pages ended the session
C8_Witness ==
    /\ pc = "exited" /\ exitCode = 1 /\ Len(pages) = 0
    /\ stderr = "No valid structure found (need H1 or H2 headings)"

-----------------------------------------------------------------------------
(* Properties of parseMarkdown *)

\* the indices of the level-n headings of a document's lines, as a set
HeadingIndices(lines, n) == { i \in 1..Len(lines) : MatchHeading(lines[i], n) }

\* the elements of a set of numbers in increasing order
RECURSIVE Sorted(_)
Sorted(S) ==
    IF S = {} THEN <<>>
    ELSE LET m == CHOOSE x \in S : \A y \in S : x <= y IN <<m>> \o Sorted(S \ {m})

RECURSIVE OfType(_, _)
OfType(ps, type) ==
    IF ps = <<>> THEN <<>>
    ELSE (IF ps[1].type = type THEN <<ps[1]>> ELSE <<>>) \o OfType(Tail(ps), type)

\* the titles ts are those of the headings hs in the same order, a heading
\* giving any number of titles in a row
RECURSIVE InHeadingOrder(_, _)
InHeadingOrder(ts, hs) ==
    \/ ts = <<>>
    \/ /\ hs # <<>>
       /\ \/ InHeadingOrder(ts, Tail(hs))
          \/ ts[1] = hs[1] /\ InHeadingOrder(Tail(ts), hs)

\* C2: a document with N second-level headings and no third-level heading
\* gives exactly N Content pages, one per second-level heading in document
\* order, each without subtitle, and a leading Title page exactly when a
\* top-level heading precedes them - also when there is no top-level heading.
C2_OnePagePerSection ==
    LET lines == Split(doc, "\n")
        h1 == HeadingIndices(lines, 1)
        h2 == Sorted(HeadingIndices(lines, 2))
        content == OfType(parsed, "page")
    IN (phase = "parsed" /\ HeadingIndices(lines, 3) = {}) =>
          /\ Len(content) = Len(h2)
          /\ \A k \in 1..Len(content) :
                /\ k <= Len(h2)
                /\ content[k].title = HeadingText(lines[h2[k]], 2)
                /\ content[k].subtitle = Null
          /\ Len(OfType(parsed, "title")) =
                (IF \E i \in h1 : \A k \in 1..Len(h2) : i < h2[k] THEN 1 ELSE 0)

\* the blocks of a section's lines: the lines before the first third-level
\* heading, then one block per third-level heading
RECURSIVE Blocks(_, _)
Blocks(ls, current) ==
    IF ls = <<>> THEN <<current>>
    ELSE IF MatchHeading(ls[1], 3) THEN <<current>> \o Blocks(Tail(ls), <<ls[1]>>)
    ELSE Blocks(Tail(ls), Append(current, ls[1]))

\* the pages C3 expects of the blocks of a section
RECURSIVE ExpectedPages(_, _)
ExpectedPages(title, blocks) ==
    IF blocks = <<>> THEN <<>>
    ELSE LET b == blocks[1]
             sub == b # <<>> /\ MatchHeading(b[1], 3)
             body == Trim(Join(IF sub THEN Tail(b) ELSE b, <<"\n">>))
         IN (IF body = <<>> THEN <<>>
             ELSE <<[type |-> "page", title |-> title,
                     subtitle |-> IF sub THEN HeadingText(b[1], 3) ELSE Null,
                     content |-> body]>>)
            \o ExpectedPages(title, Tail(blocks))

\* C3: a second-level section with third-level headings gives one Content page
\* per third-level heading whose trimmed body is not empty, none for one whose
\* body is empty, and one more page without subtitle when the text before the
\* first third-level heading is not empty; all carry the section's title, a
\* subtitled page its heading's text and a content without the heading line.
\* Stated of the documents with a single second-level heading.
C3_SubPages ==
    LET lines == Split(doc, "\n")
        h2 == HeadingIndices(lines, 2)
        k == CHOOSE i \in h2 : TRUE
        section == SubSeq(lines, k + 1, Len(lines))
    IN (phase = "parsed" /\ Cardinality(h2) = 1
          /\ \E i \in HeadingIndices(lines, 3) : i > k) =>
          OfType(parsed, "page")
             = ExpectedPages(HeadingText(lines[k], 2), Blocks(section, <<>>))

\* C4: at most one Title page, and only at position 0, every later page a
\* Content page in document order, however many top-level headings there are;
\* one top-level heading and no second-level heading give the Title page alone.
C4_TitleFirst ==
    LET lines == Split(doc, "\n")
        h1 == HeadingIndices(lines, 1)
        h2 == Sorted(HeadingIndices(lines, 2))
    IN phase = "parsed" =>
          /\ \A i \in 1..Len(parsed) : parsed[i].type = "title" => i = 1
          /\ \A i \in 2..Len(parsed) : parsed[i].type = "page"
          /\ InHeadingOrder([i \in 1..Len(OfType(parsed, "page")) |->
                                OfType(parsed, "page")[i].title],
                            [i \in 1..Len(h2) |-> HeadingText(lines[h2[i]], 2)])
          /\ (Cardinality(h1) = 1 /\ h2 = <<>>) =>
                (Len(parsed) = 1 /\ parsed[1].type = "title")

\* a document with several top-level headings parsed to a Title page and more
C4_Witness ==
    /\ phase = "parsed"
    /\ Cardinality(HeadingIndices(Split(doc, "\n"), 1)) >= 2
    /\ Len(parsed) >= 3 /\ parsed[1].type = "title"
    /\ parsed[2].title # parsed[3].title

-----------------------------------------------------------------------------
(* Properties of wrapLine *)

\* the i-th of the pieces of w of width characters each
Piece(w, width, i) == SubSeq(w, (i - 1) * width + 1, Min(i * width, Len(w)))

\* ceil(len / width)
PieceCount(w, width) == (Len(w) + width - 1) \div width

\* C5: every line returned is at most width long; a token longer than width
\* comes out as ceil(len/width) pieces in a row, all of length width but
\* possibly the last, apart from the line accumulated before it; the empty
\* line gives the empty sequence.
C5_WrapWithinWidth ==
    LET words == Split(wline, " ") IN
    phase = "wrapped" =>
        /\ \A i \in 1..Len(wrapped) : Len(wrapped[i]) <= wwidth
        /\ \A t \in 1..Len(words) :
              Len(words[t]) > wwidth =>
                 \E j \in 0..Len(wrapped) :
                    /\ j + PieceCount(words[t], wwidth) <= Len(wrapped)
                    /\ \A i \in 1..PieceCount(words[t], wwidth) :
                          /\ wrapped[j + i] = Piece(words[t], wwidth, i)
                          /\ i < PieceCount(words[t], wwidth) => Len(wrapped[j + i]) = wwidth
                    /\ (t > 1 /\ words[t - 1] # <<>> /\ Len(words[t - 1]) <= wwidth) =>
                          (j >= 1 /\ Len(wrapped[j]) >= Len(words[t - 1]))
        /\ (Len(words) = 1 /\ Len(wline) > wwidth) =>
              (Len(wrapped) = PieceCount(wline, wwidth) /\ Join(wrapped, <<>>) = wline)
        /\ wline = <<>> => wrapped = <<>>

\* "a bbb" at width 2: the accumulated "a" is flushed, then "bb" and "b"
C5_Witness ==
    /\ phase = "wrapped" /\ wwidth = 2
    /\ wline = <<"a", " ", "b", "b", "b">>
    /\ wrapped = << <<"a">>, <<"b", "b">>, <<"b">> >>

-----------------------------------------------------------------------------
(* Properties of formatContent *)

Delimiters == {"*", "_", "BACKTICK"}

\* the number of style and reset markers of a text
Markers(s) == Count(s, "ESC")

\* from index i on, s is markup-free text and spans **x**, __x__, *x*, _x_, `x`
\* with x markup-free and not empty, no two spans next to each other
RECURSIVE Separated(_, _, _)
Separated(s, i, afterSpan) ==
    IF i > Len(s) THEN TRUE
    ELSE IF s[i] \notin Delimiters THEN Separated(s, i + 1, FALSE)
    ELSE LET n == RunLen(s, s[i], i)
             j == Find(s, Delimiters, i + n)
         IN /\ ~afterSpan
            /\ n <= (IF s[i] = "BACKTICK" THEN 1 ELSE 2)
            /\ j > i + n /\ j <= Len(s) /\ s[j] = s[i] /\ RunLen(s, s[i], j) = n
            /\ Separated(s, j + n, TRUE)

\* s from index i on without its style and reset markers
RECURSIVE Unstyled(_, _)
Unstyled(s, i) ==
    IF i > Len(s) THEN <<>>
    ELSE IF s[i] = "ESC" THEN Unstyled(s, Find(s, {"m"}, i) + 1)
    ELSE <<s[i]>> \o Unstyled(s, i + 1)

RECURSIVE WithoutDelimiters(_)
WithoutDelimiters(s) ==
    IF s = <<>> THEN <<>>
    ELSE (IF s[1] \in Delimiters THEN <<>> ELSE <<s[1]>>) \o WithoutDelimiters(Tail(s))

\* C7 as stated: a second application never adds style wrapping, whatever the
\* delimiters of the text
C7_NeverRewraps == phase = "formatted" => Markers(twice) = Markers(once)

\* C7 amended: a text of markup-free text and well-formed spans that do not
\* touch loses every delimiter in the first application, and the second
\* application changes nothing: the spans stay as the first one styled them
C7_SeparatedSpansStable ==
    (phase = "formatted" /\ Separated(text, 1, FALSE)) =>
        /\ \A i \in 1..Len(once) : once[i] \notin Delimiters
        /\ Unstyled(once, 1) = WithoutDelimiters(text)
        /\ twice = once

\* a bold and an italic span with text between them, formatted
C7_Witness ==
    /\ phase = "formatted"
    /\ text = <<"*", "*", "a", "*", "*", " ", "*", "a", "*">>
    /\ once = red \o <<"a">> \o reset \o <<" ">> \o cyan \o <<"a">> \o reset

-----------------------------------------------------------------------------
(* Properties of formatPage *)

\* the rows of the screen taken by the block and the status line after it:
\* one more than the line breaks written
ScreenRows(output) == Count(output \o StatusLine(0, 1), "\n") + 1

\* C9: when the header rows and the content lines fit in rows-1 rows, the
\* block takes exactly rows-1 rows, so that block and status line take `rows`
\* rows and nothing scrolls, with empty content too.
C9_FillsScreen ==
    (phase = "rendered" /\ rout.headerHeight + rout.contentHeight <= rsize.rows - 1) =>
        /\ rout.completed
        /\ Count(rout.output, "\n") + 1 = rsize.rows - 1
        /\ ScreenRows(rout.output) = rsize.rows

\* C10: formatPage completes for every page and size from 1x1 on: the wrap
\* width is at least 1, the padding counts are never negative, and when the
\* content lines fit the rows available, top + lines + bottom is that number
\* with bottom - top 0 or 1.
C10_Completes ==
    phase = "rendered" =>
        /\ rout.completed
        /\ rout.width >= 1
        /\ rout.top >= 0 /\ rout.bottom >= 0
        /\ rout.contentHeight <= rout.available =>
              /\ rout.top + rout.contentHeight + rout.bottom = rout.available
              /\ rout.bottom - rout.top \in {0, 1}

\* a title page with content on a terminal of one row: fewer than no rows left
C10_Witness ==
    /\ phase = "rendered" /\ rpage.type = "title" /\ rsize.rows = 1
    /\ rout.available < 0 /\ rout.contentHeight > 0
    /\ rout.completed /\ rout.top = 0 /\ rout.bottom = 0

====
